---- MODULE Spec2Model ----
(***************************************************************************)
(* A model of the fixed-size thread pool of src/src/lib.rs: ThreadPool     *)
(* (new, execute, Drop) and Worker (the thread body spawned by             *)
(* Worker::new), over an mpsc channel whose Receiver sits in an            *)
(* Arc<Mutex<..>> shared by the worker threads.                            *)
(*                                                                         *)
(* The controlling thread is `main`; each worker thread has a position in  *)
(* `thr`.  Jobs are numbered 1, 2, ... in submission order; a job either   *)
(* returns or panics (the set `faulty`).                                   *)
(***************************************************************************)
EXTENDS Integers, Sequences, FiniteSets

\* Largest `count` handed to ThreadPool::new.
MaxCount == 3
\* Largest number of jobs handed to execute.
MaxTasks == 3

VARIABLES
    main,        \* position of the controlling thread
    panicAt,     \* where the controlling thread panicked ("none" if it has not)
    count,       \* the argument of ThreadPool::new
    channel,     \* mpsc::channel() has been called (lib.rs:23)
    workers,     \* ThreadPool.workers: Vec<Worker>, each [id, thread]
    sender,      \* ThreadPool.sender: Option<Sender<Job>>, "Some" or "None"
    queue,       \* the jobs buffered in the channel, oldest first
    lockHolder,  \* the worker holding the MutexGuard of the receiver, or NoWorker
    poisoned,    \* the receiver's Mutex is poisoned
    thr,         \* position of each worker thread
    message,     \* each worker's `message`: NoMessage, RecvErr or Ok(job)
    submitted,   \* number of jobs successfully sent so far
    faulty,      \* the submitted jobs whose body panics
    deliveries,  \* history: the jobs returned by recv as Ok(job), in dequeue order
    started,     \* history: how often each job's body was invoked
    log,         \* history: the jobs whose body returned, in completion order
    joined,      \* history: how often each worker's JoinHandle was joined
    joinIdx      \* position of the `for worker in &mut self.workers` loop of drop

vars == <<main, panicAt, count, channel, workers, sender, queue, lockHolder,
          poisoned, thr, message, submitted, faulty, deliveries, started, log,
          joined, joinIdx>>

Ids == 0 .. (MaxCount - 1)
Jobs == 1 .. MaxTasks
NoWorker == -1
NoMessage == 0
RecvErr == -1

\* A worker thread that has been spawned and has not terminated.
Running(w) ==
    thr[w] \in {"lock", "recv", "got", "job"}

LiveWorkers ==
    {w \in Ids : Running(w)}

\* Mutant: join returns without waiting for the thread.
ThreadFinishedNoWait(w) ==
    w \in Ids

\* thread::JoinHandle::join returns once the thread has terminated.
ThreadFinished(w) ==
    thr[w] \in {"done", "panicked"}

\* Mutant: the pool keeps a clone of the Arc, the Receiver outlives the
\* worker threads.
ReceiverAliveWithPool ==
    channel

\* The Receiver lives as long as some clone of the Arc does: the local of
\* ThreadPool::new (dropped when new returns) or a worker thread's closure.
ReceiverAlive ==
    channel /\ (main = "spawn" \/ LiveWorkers # {})

\* How often job t occurs in a sequence of jobs.
Occurrences(s, t) ==
    Cardinality({i \in 1 .. Len(s) : s[i] = t})

Init ==
    /\ main = "start"
    /\ panicAt = "none"
    /\ count \in 0 .. MaxCount
    /\ channel = FALSE
    /\ workers = <<>>
    /\ sender = "None"
    /\ queue = <<>>
    /\ lockHolder = NoWorker
    /\ poisoned = FALSE
    /\ thr = [w \in Ids |-> "unspawned"]
    /\ message = [w \in Ids |-> NoMessage]
    /\ submitted = 0
    /\ faulty = {}
    /\ deliveries = <<>>
    /\ started = [t \in Jobs |-> 0]
    /\ log = <<>>
    /\ joined = [w \in Ids |-> 0]
    /\ joinIdx = 0

(***************************************************************************)
(* ThreadPool::new                                                         *)
(***************************************************************************)

\* Mutant: the assertion is missing.
CountAcceptedAlways(c) ==
    c >= 0

\* lib.rs:21 assert!(count > 0)
CountAccepted(c) ==
    c > 0

\* lib.rs:21 fails: the assertion panics before anything is created.
NewAssertFails ==
    /\ main = "start"
    /\ ~CountAccepted(count)
    /\ main' = "panicked"
    /\ panicAt' = "assert"
    /\ UNCHANGED <<count, channel, workers, sender, queue, lockHolder, poisoned,
                   thr, message, submitted, faulty, deliveries, started, log,
                   joined, joinIdx>>

\* lib.rs:21-24: the assertion passes, the channel and the shared receiver exist.
NewBegin ==
    /\ main = "start"
    /\ CountAccepted(count)
    /\ channel' = TRUE
    /\ main' = "spawn"
    /\ UNCHANGED <<panicAt, count, workers, sender, queue, lockHolder, poisoned,
                   thr, message, submitted, faulty, deliveries, started, log,
                   joined, joinIdx>>

\* The id the loop `for id in 0..count` hands to the next Worker::new.
NextId ==
    Len(workers)

\* lib.rs:25-27 with Worker::new (lib.rs:49-67): one iteration spawns the
\* thread and pushes Worker { id, thread: Some(thread) }.
NewSpawn ==
    /\ main = "spawn"
    /\ NextId < count
    /\ workers' = Append(workers, [id |-> NextId, thread |-> "Some"])
    /\ thr' = [thr EXCEPT ![NextId] = "lock"]
    /\ UNCHANGED <<main, panicAt, count, channel, sender, queue, lockHolder,
                   poisoned, message, submitted, faulty, deliveries, started,
                   log, joined, joinIdx>>

\* lib.rs:28-31: the loop is over, the pool is returned.
NewReturn ==
    /\ main = "spawn"
    /\ NextId >= count
    /\ sender' = "Some"
    /\ main' = "live"
    /\ UNCHANGED <<panicAt, count, channel, workers, queue, lockHolder, poisoned,
                   thr, message, submitted, faulty, deliveries, started, log,
                   joined, joinIdx>>

(***************************************************************************)
(* ThreadPool::execute                                                     *)
(***************************************************************************)

\* The caller holds a pool (constructed, and not in the middle of drop).
CallerHasPool ==
    main \in {"live", "dropped"}

\* Mutant: the channel is a stack, send puts the job in front.
QueueAfterSendFront(q, t) ==
    <<t>> \o q

\* Sender::send puts the job behind the jobs already buffered.
QueueAfterSend(q, t) ==
    Append(q, t)

\* Mutant: execute takes the sender out of the pool to send.
SenderAfterSendTaken ==
    "None"

\* lib.rs:39 self.sender.as_ref() borrows the sender and leaves it in place.
SenderAfterSend ==
    sender

\* lib.rs:39, the sender is there and the receiver is alive: send returns Ok
\* and the job is at the tail of the channel. f: the job's body panics.
ExecuteOk(f) ==
    /\ CallerHasPool
    /\ submitted < MaxTasks
    /\ sender = "Some"
    /\ ReceiverAlive
    /\ queue' = QueueAfterSend(queue, submitted + 1)
    /\ submitted' = submitted + 1
    /\ faulty' = IF f THEN faulty \cup {submitted + 1} ELSE faulty
    /\ sender' = SenderAfterSend
    /\ UNCHANGED <<main, panicAt, count, channel, workers, lockHolder,
                   poisoned, thr, message, deliveries, started, log, joined,
                   joinIdx>>

\* lib.rs:39, self.sender is None: as_ref().unwrap() panics.
ExecuteSenderNone ==
    /\ CallerHasPool
    /\ sender = "None"
    /\ main' = "panicked"
    /\ panicAt' = "execute_none"
    /\ UNCHANGED <<count, channel, workers, sender, queue, lockHolder, poisoned,
                   thr, message, submitted, faulty, deliveries, started, log,
                   joined, joinIdx>>

\* lib.rs:39, the receiver has been dropped: send returns Err, unwrap() panics.
ExecuteSendErr ==
    /\ CallerHasPool
    /\ sender = "Some"
    /\ ~ReceiverAlive
    /\ main' = "panicked"
    /\ panicAt' = "execute_send"
    /\ UNCHANGED <<count, channel, workers, sender, queue, lockHolder, poisoned,
                   thr, message, submitted, faulty, deliveries, started, log,
                   joined, joinIdx>>

(***************************************************************************)
(* The worker thread (the closure of Worker::new)                          *)
(***************************************************************************)

\* The jobs left in the channel once worker w's thread has ended: the last clone of the Arc gone, the Receiver and its buffer are
\* dropped.
QueueAfterExit(w, q) ==
    IF LiveWorkers \ {w} = {} /\ main # "spawn" THEN <<>> ELSE q

\* Mutant: the receiver is shared without mutual exclusion, lock() never waits.
MutexFreeAlways ==
    lockHolder \in Ids \cup {NoWorker}

\* lib.rs:24,51 Mutex::lock returns only while no other guard is alive.
MutexFree ==
    lockHolder = NoWorker

\* lib.rs:51 receiver.lock().unwrap(): the mutex is free and w takes it; on a
\* poisoned mutex lock() returns Err and unwrap() panics, the guard inside the
\* error is dropped.
WorkerLock(w) ==
    /\ thr[w] = "lock"
    /\ MutexFree
    /\ IF poisoned
       THEN /\ thr' = [thr EXCEPT ![w] = "panicked"]
            /\ queue' = QueueAfterExit(w, queue)
            /\ UNCHANGED lockHolder
       ELSE /\ thr' = [thr EXCEPT ![w] = "recv"]
            /\ lockHolder' = w
            /\ UNCHANGED queue
    /\ UNCHANGED <<main, panicAt, count, channel, workers, sender, poisoned,
                   message, submitted, faulty, deliveries, started, log, joined,
                   joinIdx>>

\* Mutant: recv hands out the oldest job and leaves it in the channel.
QueueAfterRecvKeeps(q) ==
    q

\* The channel after recv has returned Ok(Head(q)).
QueueAfterRecv(q) ==
    Tail(q)

\* The channel is disconnected: every Sender has been dropped.
Disconnected ==
    channel /\ main # "spawn" /\ sender = "None"

\* Mutant: recv hands out the newest job.
RecvPickLast(q) ==
    q[Len(q)]

\* Receiver::recv hands out the oldest buffered job.
RecvPick(q) ==
    Head(q)

\* lib.rs:51 recv() returns Ok(job): a job is buffered, the oldest is taken.
WorkerRecvOk(w) ==
    /\ thr[w] = "recv"
    /\ queue # <<>>
    /\ message' = [message EXCEPT ![w] = RecvPick(queue)]
    /\ queue' = QueueAfterRecv(queue)
    /\ deliveries' = Append(deliveries, RecvPick(queue))
    /\ thr' = [thr EXCEPT ![w] = "got"]
    /\ UNCHANGED <<main, panicAt, count, channel, workers, sender, lockHolder,
                   poisoned, submitted, faulty, started, log, joined, joinIdx>>

\* Mutant: the dequeue reports the end as soon as the sender is gone, jobs
\* still buffered or not.
RecvFailsWhenClosed ==
    Disconnected

\* Receiver::recv returns Err only when the buffer is empty and every Sender
\* has been dropped; the buffered jobs are handed out first.
RecvFails ==
    queue = <<>> /\ Disconnected

\* lib.rs:51 recv() returns Err: the buffer is empty and the sender is gone.
\* With an empty buffer and a live sender recv blocks.
WorkerRecvErr(w) ==
    /\ thr[w] = "recv"
    /\ RecvFails
    /\ message' = [message EXCEPT ![w] = RecvErr]
    /\ thr' = [thr EXCEPT ![w] = "got"]
    /\ UNCHANGED <<main, panicAt, count, channel, workers, sender, queue,
                   lockHolder, poisoned, submitted, faulty, deliveries, started,
                   log, joined, joinIdx>>

\* Mutant: the guard lives until the end of the loop body, as it would in
\* `while let Ok(job) = receiver.lock().unwrap().recv() { job(); }`.
HolderInJobKeepsGuard(w, h) ==
    h

\* The holder of the mutex while worker w runs the body of a job: the guard
\* is a temporary of the `let message = ...;` statement and is dropped at its
\* end, before the match.
HolderInJob(w, h) ==
    IF h = w THEN NoWorker ELSE h

\* Mutant: the thread body runs one job and returns instead of looping.
AfterJobNoLoop ==
    "done"

\* lib.rs:50 `loop`: where a worker is after job() has returned.
AfterJob ==
    "lock"

\* Mutant: a panicking job poisons the mutex whoever holds it.
PanicPoisonsAlways(w) ==
    w \in Ids

\* A thread that unwinds while it holds the guard poisons the mutex.
PanicPoisons(w) ==
    lockHolder = w

\* lib.rs:51-55: the statement ends, the guard is dropped, and the match
\* takes the Ok arm: job() is called.
WorkerStartJob(w) ==
    /\ thr[w] = "got"
    /\ message[w] # RecvErr
    /\ lockHolder' = HolderInJob(w, lockHolder)
    /\ started' = [started EXCEPT ![message[w]] = @ + 1]
    /\ thr' = [thr EXCEPT ![w] = "job"]
    /\ UNCHANGED <<main, panicAt, count, channel, workers, sender, queue,
                   poisoned, message, submitted, faulty, deliveries, log, joined,
                   joinIdx>>

\* lib.rs:51,57-60: the guard is dropped, the match takes the Err arm: break,
\* the closure returns and the thread ends.
WorkerBreak(w) ==
    /\ thr[w] = "got"
    /\ message[w] = RecvErr
    /\ lockHolder' = NoWorker
    /\ thr' = [thr EXCEPT ![w] = "done"]
    /\ message' = [message EXCEPT ![w] = NoMessage]
    /\ queue' = QueueAfterExit(w, queue)
    /\ UNCHANGED <<main, panicAt, count, channel, workers, sender, poisoned,
                   submitted, faulty, deliveries, started, log, joined, joinIdx>>

\* lib.rs:55: job() returns; the loop goes round.
WorkerJobReturns(w) ==
    /\ thr[w] = "job"
    /\ message[w] \notin faulty
    /\ log' = Append(log, message[w])
    /\ lockHolder' = IF lockHolder = w THEN NoWorker ELSE lockHolder
    /\ message' = [message EXCEPT ![w] = NoMessage]
    /\ thr' = [thr EXCEPT ![w] = AfterJob]
    /\ UNCHANGED <<main, panicAt, count, channel, workers, sender, queue,
                   poisoned, submitted, faulty, deliveries, started, joined,
                   joinIdx>>

\* lib.rs:55: job() panics; nothing catches it, the thread unwinds and ends.
\* A guard held by the unwinding thread poisons the mutex as it is dropped.
WorkerJobPanics(w) ==
    /\ thr[w] = "job"
    /\ message[w] \in faulty
    /\ poisoned' = (poisoned \/ PanicPoisons(w))
    /\ lockHolder' = IF lockHolder = w THEN NoWorker ELSE lockHolder
    /\ message' = [message EXCEPT ![w] = NoMessage]
    /\ thr' = [thr EXCEPT ![w] = "panicked"]
    /\ queue' = QueueAfterExit(w, queue)
    /\ UNCHANGED <<main, panicAt, count, channel, workers, sender, submitted,
                   faulty, deliveries, started, log, joined, joinIdx>>

(***************************************************************************)
(* impl Drop for ThreadPool                                                *)
(***************************************************************************)

\* Mutant: the sender is not taken out of the pool, so it is not dropped.
SenderAfterTakeKept ==
    "Some"

\* lib.rs:72 self.sender.take() leaves None in the field.
SenderAfterTake ==
    "None"

\* Mutant: the loop stops after the first worker.
LoopOverAfterFirst(i) ==
    i > 1

\* lib.rs:73 `for worker in &mut self.workers` has visited every worker.
LoopOver(i) ==
    i > Len(workers)

\* Mutant: the loop visits the workers last to first.
LoopWorkerReversed(i) ==
    Len(workers) + 1 - i

\* lib.rs:73 `for worker in &mut self.workers`: the position in the Vec of
\* the worker the i-th iteration visits.
LoopWorker(i) ==
    i

\* Mutant: the handle is read and left in the worker.
HandleAfterTakeKept ==
    "Some"

\* lib.rs:74 worker.thread.take() leaves None in the worker.
HandleAfterTake ==
    "None"

\* lib.rs:72 drop(self.sender.take()): the field is None and the only Sender
\* of the channel is dropped.
DropSender ==
    /\ main = "live"
    /\ sender' = SenderAfterTake
    /\ main' = "drop"
    /\ joinIdx' = 1
    /\ UNCHANGED <<panicAt, count, channel, workers, queue, lockHolder, poisoned,
                   thr, message, submitted, faulty, deliveries, started, log,
                   joined>>

\* lib.rs:73-74: the next worker of the loop; `if let Some(thread) =
\* worker.thread.take()` leaves None in the worker and goes on to join, or
\* finds None and goes on to the next worker.
DropNext ==
    /\ main = "drop"
    /\ ~LoopOver(joinIdx)
    /\ IF workers[LoopWorker(joinIdx)].thread = "Some"
       THEN /\ workers' = [workers EXCEPT ![LoopWorker(joinIdx)].thread = HandleAfterTake]
            /\ main' = "join"
            /\ UNCHANGED joinIdx
       ELSE /\ joinIdx' = joinIdx + 1
            /\ UNCHANGED <<workers, main>>
    /\ UNCHANGED <<panicAt, count, channel, sender, queue, lockHolder, poisoned,
                   thr, message, submitted, faulty, deliveries, started, log,
                   joined>>

\* lib.rs:76 thread.join().unwrap(): the thread has ended; join returns Ok
\* for a thread that returned.
DropJoinOk ==
    /\ main = "join"
    /\ ThreadFinished(workers[LoopWorker(joinIdx)].id)
    /\ thr[workers[LoopWorker(joinIdx)].id] # "panicked"
    /\ joined' = [joined EXCEPT ![workers[LoopWorker(joinIdx)].id] = @ + 1]
    /\ joinIdx' = joinIdx + 1
    /\ main' = "drop"
    /\ UNCHANGED <<panicAt, count, channel, workers, sender, queue, lockHolder,
                   poisoned, thr, message, submitted, faulty, deliveries,
                   started, log>>

\* lib.rs:76 thread.join().unwrap(): join returns Err for a thread that
\* panicked, and unwrap() panics inside drop.
DropJoinPanics ==
    /\ main = "join"
    /\ ThreadFinished(workers[LoopWorker(joinIdx)].id)
    /\ thr[workers[LoopWorker(joinIdx)].id] = "panicked"
    /\ joined' = [joined EXCEPT ![workers[LoopWorker(joinIdx)].id] = @ + 1]
    /\ main' = "panicked"
    /\ panicAt' = "join"
    /\ UNCHANGED <<count, channel, workers, sender, queue, lockHolder, poisoned,
                   thr, message, submitted, faulty, deliveries, started, log,
                   joinIdx>>

\* lib.rs:73,79: the loop is over, drop returns.
DropReturn ==
    /\ main = "drop"
    /\ LoopOver(joinIdx)
    /\ main' = "dropped"
    /\ UNCHANGED <<panicAt, count, channel, workers, sender, queue, lockHolder,
                   poisoned, thr, message, submitted, faulty, deliveries,
                   started, log, joined, joinIdx>>

\* lib.rs:71-72 run once more on a pool that has been torn down: take() on
\* the None sender yields None, there is nothing to drop, and the loop starts
\* over.
DropAgain ==
    /\ main = "dropped"
    /\ sender' = SenderAfterTake
    /\ main' = "drop"
    /\ joinIdx' = 1
    /\ UNCHANGED <<panicAt, count, channel, workers, queue, lockHolder, poisoned,
                   thr, message, submitted, faulty, deliveries, started, log,
                   joined>>

(***************************************************************************)
(* Specifications                                                          *)
(***************************************************************************)

WorkerStep(w) ==
    \/ WorkerLock(w)
    \/ WorkerRecvOk(w)
    \/ WorkerRecvErr(w)
    \/ WorkerStartJob(w)
    \/ WorkerBreak(w)
    \/ WorkerJobReturns(w)

DropStep ==
    \/ DropNext
    \/ DropJoinOk
    \/ DropReturn

NewStep ==
    \/ NewAssertFails
    \/ NewBegin
    \/ NewSpawn
    \/ NewReturn

\* Every job returns: no job's body panics.
NextNoFault ==
    \/ NewStep
    \/ ExecuteOk(FALSE)
    \/ ExecuteSenderNone
    \/ DropSender
    \/ DropStep
    \/ \E w \in Ids : WorkerStep(w)

\* Jobs may panic.
Next ==
    \/ NewStep
    \/ \E f \in BOOLEAN : ExecuteOk(f)
    \/ ExecuteSenderNone
    \/ ExecuteSendErr
    \/ DropSender
    \/ DropStep
    \/ DropJoinPanics
    \/ \E w \in Ids : WorkerStep(w) \/ WorkerJobPanics(w)

Spec == Init /\ [][Next]_vars

\* As Next, and the steps of drop may be run again on a torn-down pool.
NextDropTwice ==
    \/ Next
    \/ DropAgain

SpecDropTwice == Init /\ [][NextDropTwice]_vars

SpecNoFault == Init /\ [][NextNoFault]_vars

\* The operating system schedules every worker thread and the controlling
\* thread inside drop; nothing obliges the caller to submit or to drop.
Fairness ==
    /\ \A w \in Ids : WF_vars(WorkerStep(w))
    /\ WF_vars(DropStep)

FairSpecNoFault == SpecNoFault /\ Fairness

(***************************************************************************)
(* Properties                                                              *)
(***************************************************************************)

\* The jobs submitted so far.
Submitted ==
    1 .. submitted

\* How often job t was handed to a worker by recv.
Delivered(t) ==
    Occurrences(deliveries, t)

\* The controlling thread is inside drop.
InDrop ==
    main \in {"drop", "join"}

\* C1: when drop returns, every job submitted before it has been run to
\* completion exactly once, and the channel holds no job (jobs do not panic).
C1_AllJobsRunOnceWhenDropReturns ==
    main = "dropped" =>
        /\ queue = <<>>
        /\ Len(log) = submitted
        /\ \A t \in Submitted :
              Delivered(t) = 1 /\ started[t] = 1 /\ Occurrences(log, t) = 1

C1_Witness ==
    main = "dropped" /\ count >= 2 /\ submitted >= 2 /\ Len(log) = submitted

\* C2: in every state each job has been handed out by recv at most once, to
\* one worker only, and started at most once; a job handed out is no longer
\* in the channel, and only submitted jobs are handed out or started.
C2_AtMostOnceDelivery ==
    /\ \A t \in Jobs :
          /\ Delivered(t) <= 1
          /\ started[t] <= Delivered(t)
          /\ Delivered(t) + Occurrences(queue, t) <= 1
          /\ (Delivered(t) > 0 => t \in Submitted)
    /\ \A w \in Ids :
          /\ thr[w] = "job" => message[w] \in Submitted /\ started[message[w]] = 1
          /\ message[w] \in Jobs =>
                /\ Delivered(message[w]) = 1
                /\ \A v \in Ids \ {w} : message[v] # message[w]

\* Two workers each run a job of their own.
C2_Witness ==
    \E v, w \in Ids :
        /\ v # w
        /\ thr[v] = "job" /\ thr[w] = "job"
        /\ started[message[v]] = 1 /\ started[message[w]] = 1

\* C3: after drop has returned every worker's thread has terminated and has
\* been joined, and its handle is None (jobs do not panic).
C3_AllJoinedWhenDropReturns ==
    main = "dropped" =>
        /\ Len(workers) = count
        /\ \A i \in 1 .. Len(workers) :
              /\ workers[i].thread = "None"
              /\ thr[workers[i].id] = "done"
              /\ joined[workers[i].id] = 1
        /\ LiveWorkers = {}

C3_Witness ==
    main = "dropped" /\ count = MaxCount /\ submitted >= 1

\* C4 (as claimed): execute on a pool whose sender has been taken does not
\* panic the caller.
C4_ExecuteAfterShutdownDoesNotPanic ==
    panicAt # "execute_none"

\* C5 (as claimed): with a worker dead of a panicking job, drop is not
\* aborted by a panic in its join loop.
C5_DropSurvivesDeadWorker ==
    (\E w \in Ids : thr[w] = "panicked") => panicAt # "join"

\* C6: every job submitted is eventually run to completion, whether or not
\* the pool is ever dropped (fair scheduling, jobs do not panic).
C6_EveryJobEventuallyCompletes ==
    \A t \in Jobs : (t \in Submitted) ~> (Occurrences(log, t) = 1)

C6_Witness ==
    main = "live" /\ submitted = MaxTasks /\ Len(log) = MaxTasks

\* C7: once drop has started it eventually returns, and until it has
\* returned some thread can always take a step (fair scheduling, jobs do not
\* panic).
C7_DropTerminates ==
    /\ InDrop ~> (main = "dropped")
    /\ [](InDrop => ENABLED (DropStep \/ \E w \in Ids : WorkerStep(w)))

C7_Witness ==
    /\ main = "join"
    /\ submitted = 0
    /\ \E w \in Ids : thr[w] = "recv"
    /\ \E w \in Ids : thr[w] = "lock"

\* C8: when new(n) has returned, n >= 1 and the pool holds exactly n workers
\* with ids 0..n-1 in order, each with a spawned thread and its handle, and
\* the sender; new(0) panics on the assertion with no channel and no worker.
C8_NewBuildsCountWorkers ==
    /\ main = "live" =>
          /\ count >= 1
          /\ Len(workers) = count
          /\ sender = "Some"
          /\ \A i \in 1 .. Len(workers) :
                /\ workers[i].id = i - 1
                /\ workers[i].thread = "Some"
                /\ thr[i - 1] # "unspawned"
          /\ \A w \in Ids : w >= count => thr[w] = "unspawned"
    /\ count = 0 =>
          /\ main \in {"start", "panicked"}
          /\ (main = "panicked" => panicAt = "assert")
          /\ ~channel
          /\ workers = <<>>
          /\ sender = "None"
          /\ \A w \in Ids : thr[w] = "unspawned"

C8_Witness ==
    main = "live" /\ count = MaxCount /\ Len(workers) = MaxCount

\* C9: a worker running a job never keeps an idle worker from the receiver:
\* whenever a worker waits for the mutex while another runs a job and no
\* worker is inside its dequeue, the waiting worker can take the mutex.
C9_RunningJobDoesNotBlockDequeue ==
    \A w \in Ids :
        ( /\ thr[w] = "lock"
          /\ \E v \in Ids : thr[v] = "job"
          /\ \A v \in Ids : thr[v] \notin {"recv", "got"} )
        => ENABLED WorkerLock(w)

\* All n >= 2 workers run a job at the same time, each its own.
C9_Witness ==
    /\ count >= 2
    /\ main = "live"
    /\ \A w \in 0 .. (count - 1) : thr[w] = "job"
    /\ \A v, w \in 0 .. (count - 1) : v # w => message[v] # message[w]

\* C10: a thread ends in a panic only by running a panicking job, that step
\* changes no other thread, the mutex is never poisoned, and after
\* construction no worker becomes live.
C10_FaultKillsOnlyItsWorker ==
    [][ /\ \A w \in Ids :
             (thr[w] # "panicked" /\ thr'[w] = "panicked") =>
                 /\ thr[w] = "job"
                 /\ message[w] \in faulty
                 /\ \A v \in Ids \ {w} : thr'[v] = thr[v]
        /\ ~poisoned'
        /\ (main \notin {"start", "spawn"} => LiveWorkers' \subseteq LiveWorkers)
      ]_vars

\* A worker is dead of a panic and another one runs a later job.
C10_Witness ==
    \E w, v \in Ids :
        /\ thr[w] = "panicked"
        /\ thr[v] = "job"
        /\ \E t \in faulty :
              started[t] = 1 /\ t < message[v] /\ \A u \in Ids : message[u] # t

\* The workers between lock() returning and the guard being dropped.
InDequeue ==
    {w \in Ids : thr[w] \in {"recv", "got"}}

\* C11: in every state at most one worker is inside the dequeue (holds the
\* guard of the receiver, in recv or just out of it), and it is the holder
\* of the mutex.
C11_DequeueMutuallyExclusive ==
    /\ Cardinality(InDequeue) <= 1
    /\ \A w \in InDequeue : lockHolder = w

\* One worker is blocked in recv with the guard while another waits in lock().
C11_Witness ==
    \E v, w \in Ids :
        /\ thr[w] = "recv" /\ lockHolder = w
        /\ thr[v] = "lock"
        /\ queue # <<>>

\* C12: a worker that is running a job does not hold the mutex: the guard of
\* the dequeue that produced the job has been dropped.
C12_NoLockWhileRunningJob ==
    \A w \in Ids : thr[w] = "job" => lockHolder # w

\* A worker runs a job while another worker holds the mutex in its dequeue.
C12_Witness ==
    \E v, w \in Ids :
        /\ thr[w] = "job"
        /\ thr[v] = "got" /\ lockHolder = v /\ message[v] \in Jobs

\* C13: with no panicking job, a worker gets Err from its dequeue, and its
\* thread ends, only with the sender dropped and the channel empty; while a
\* worker has left, the channel stays empty.
C13_ExitOnlyWhenClosedAndEmpty ==
    \A w \in Ids :
        (message[w] = RecvErr \/ (thr[w] # "unspawned" /\ ~Running(w)))
        => /\ thr[w] \in {"got", "done"}
           /\ sender = "None"
           /\ main \notin {"start", "spawn", "live"}
           /\ queue = <<>>

\* A worker has left its loop while another still runs a submitted job.
C13_Witness ==
    /\ \E w \in Ids : thr[w] = "done"
    /\ \E w \in Ids : thr[w] = "job"
    /\ submitted >= 2

\* Position i of the Vec holds a worker whose handle is being taken.
HandleTaken(i) ==
    workers[i].thread = "Some" /\ workers'[i].thread = "None"

\* C14: only the first step of drop closes the sender; a worker's handle is
\* taken, and a join returns, only with the sender closed; and when the
\* handle of the worker at position i is taken, every earlier worker has been
\* joined and no later worker has been touched.
C14_TeardownOrder ==
    [][ /\ (sender = "Some" /\ sender' = "None") => (main = "live" /\ main' = "drop")
        /\ \A w \in Ids : joined'[w] # joined[w] => sender = "None"
        /\ \A i \in 1 .. Len(workers) :
              HandleTaken(i) =>
                  /\ sender = "None"
                  /\ \A j \in 1 .. Len(workers) :
                        /\ j < i => workers[j].thread = "None"
                                      /\ joined[workers[j].id] = 1
                        /\ j > i => workers[j].thread = "Some"
                                      /\ joined[workers[j].id] = 0
      ]_vars

\* The join of the last worker has begun, the earlier ones are over.
C14_Witness ==
    /\ count = MaxCount
    /\ main = "join"
    /\ joinIdx = count
    /\ \A w \in 0 .. (count - 2) : joined[w] = 1

\* C15: with a single worker the jobs complete in submission order (the log
\* is 1, 2, ... at every moment), and when drop has returned every submitted
\* job is in it (jobs do not panic).
C15_SingleWorkerRunsInOrder ==
    count = 1 =>
        /\ \A i \in 1 .. Len(log) : log[i] = i
        /\ (main = "dropped" => Len(log) = submitted)

C15_Witness ==
    count = 1 /\ main = "dropped" /\ submitted = MaxTasks /\ Len(log) = MaxTasks

\* The pool has been torn down: no sender, and no worker has its handle.
TornDown ==
    /\ main \in {"drop", "dropped"}
    /\ sender = "None"
    /\ \A i \in 1 .. Len(workers) : workers[i].thread = "None"

\* C16: no worker is joined twice, a handle that is None stays None (each is
\* taken once), and the steps of drop run on a torn-down pool change nothing
\* of the pool, its workers, the channel or the threads, and join nothing.
C16_TeardownIdempotent ==
    [][ /\ \A w \in Ids : joined'[w] <= 1
        /\ \A i \in 1 .. Len(workers) :
              workers[i].thread = "None" => workers'[i].thread = "None"
        /\ TornDown =>
              UNCHANGED <<workers, sender, joined, thr, queue, lockHolder,
                          poisoned, message, deliveries, started, log,
                          submitted, channel, count>>
      ]_vars

\* The loop of a second run of drop has passed the first worker, whose handle
\* was None, and stands at the second, whose handle is None as well.
C16_Witness ==
    /\ count >= 2
    /\ main = "drop"
    /\ joinIdx = 2
    /\ workers[1].thread = "None"
    /\ workers[2].thread = "None"
    /\ \A w \in 0 .. (count - 1) : joined[w] = 1

\* C17: a step in which execute succeeds puts the job behind the jobs in the
\* channel and changes nothing else of the pool, its workers or the threads;
\* the caller is back in its place with the job still in the channel.
C17_ExecuteOnlyEnqueues ==
    [][ submitted' # submitted =>
          /\ submitted' = submitted + 1
          /\ queue' = Append(queue, submitted')
          /\ main = "live" /\ main' = "live"
          /\ UNCHANGED <<workers, sender, panicAt, count, channel, lockHolder,
                         poisoned, thr, message, deliveries, started, log,
                         joined, joinIdx>>
      ]_vars

\* execute has returned MaxTasks times and no job has been dequeued yet.
C17_Witness ==
    main = "live" /\ Len(queue) = MaxTasks /\ submitted = MaxTasks

\* C18: the jobs leave the channel in submission order: the k-th job handed
\* out by recv is job k, whatever the number of workers.
C18_DequeueInSubmissionOrder ==
    \A i \in 1 .. Len(deliveries) : deliveries[i] = i

\* Jobs 1 and 2 were dequeued in that order and job 2 finished first.
C18_Witness ==
    /\ count >= 2
    /\ Len(deliveries) >= 2
    /\ Len(log) >= 2
    /\ log[1] = 2
    /\ log[2] = 1

\* Every worker of the constructed pool has died of a panic.
AllWorkersDead ==
    /\ main \notin {"start", "spawn"}
    /\ Len(workers) >= 1
    /\ \A i \in 1 .. Len(workers) : thr[workers[i].id] = "panicked"

\* C19: on a pool not being torn down, execute succeeds while a worker thread
\* is alive; once every worker has died of a panicking job no job is started
\* or completed any more, execute cannot succeed, and it panics the caller on
\* the failed send (and on nothing else).
C19_ExecuteFailsOnceAllWorkersDead ==
    /\ (main = "live" /\ LiveWorkers # {}) =>
          /\ ~ENABLED ExecuteSendErr
          /\ (submitted < MaxTasks => ENABLED ExecuteOk(FALSE))
    /\ (main = "live" /\ AllWorkersDead) =>
          /\ ENABLED ExecuteSendErr
          /\ ~ENABLED ExecuteOk(FALSE)
          /\ ~ENABLED (\E w \in Ids : WorkerStep(w) \/ WorkerJobPanics(w))
    /\ panicAt = "execute_send" => (AllWorkersDead /\ sender = "Some")

\* execute has panicked on the failed send, and a job submitted earlier was
\* never started.
C19_Witness ==
    /\ panicAt = "execute_send"
    /\ \E t \in Submitted : started[t] = 0

====
